---- MODULE Spec2Model ----
(***************************************************************************)
(* Model of the fraud detection service: the model loader                  *)
(* (FraudDetectionModel.__init__ / load_model / _download_model /          *)
(* initialize_model), the inference wrapper (FraudDetectionModel.predict)  *)
(* and the HTTP endpoint POST /detect (detect_fraud).                      *)
(*                                                                         *)
(* Numbers: a probability is an integer number of tenths (0..ProbScale),   *)
(* and so is FRAUD_THRESHOLD; a feature is an integer, which the endpoint  *)
(* converts to float32 (F32).                                              *)
(***************************************************************************)
EXTENDS Integers, Sequences, FiniteSets, TLC

VARIABLES
    pc,               \* position of the import-time construction / the server
    localDir,         \* what lies at FRAUD_MODEL_LOCAL_PATH
    remote,           \* what the remote repository serves (environment)
    model,            \* self.model: "None" or the artifact the handle wraps
    excPending,       \* an exception is propagating out of load_model's except block
    initAttempts,     \* number of initialize_model calls so far
    downloads,        \* number of _download_model calls so far
    wipes,            \* number of shutil.rmtree calls so far
    fetches,          \* number of snapshot_download calls so far
    firstInitFailed,  \* the first initialize_model raised
    dirAtStart,       \* localDir when the process started (history)
    servedModel,      \* self.model when load_model returned (history)
    FRAUD_THRESHOLD,  \* ai_config.FRAUD_THRESHOLD
    thresholdAtStart, \* ai_config.FRAUD_THRESHOLD when the process started (history)
    req               \* the /detect requests: position and locals of each handler

vars == <<pc, localDir, remote, model, excPending, initAttempts, downloads, wipes,
          fetches, firstInitFailed, dirAtStart, servedModel, FRAUD_THRESHOLD,
          thresholdAtStart, req>>

loaderVars == <<localDir, remote, model, excPending, initAttempts, downloads, wipes,
                fetches, firstInitFailed, dirAtStart, servedModel>>

-----------------------------------------------------------------------------
(* Bounds and program constants *)

\* keras.layers.Input(shape=(30,))
FeatureDim == 30

\* longest batch a request carries
MaxBatch == 2

\* probabilities are counted in tenths: 0 .. ProbScale
ProbScale == 10

\* float32 has a 24-bit significand: integers up to 2^24 are exact
F32Exact == 16777216

Reqs == {"r1", "r2"}

None == "None"

\* the trained artifacts that exist: each is an opaque set of weights
Artifacts == {"wA", "wB"}

Thresholds == {3, 5}

\* a row of `len` features: Time first, Amount last, the components between
RowOf(len, time, amount) ==
    [i \in 1..len |-> IF i = 1 THEN time ELSE IF i = len THEN amount ELSE 0]

\* the rows requests are built from: two well-formed ones (the second has an
\* Amount float32 cannot hold exactly), one too short, one too long
Rows == { RowOf(FeatureDim, 0, 0),
          RowOf(FeatureDim, 1, F32Exact + 1),
          RowOf(FeatureDim - 1, 1, 1),
          RowOf(FeatureDim + 1, 0, 1) }

\* request bodies that pass FraudDetectionRequest (features: list[list[float]])
Batches == UNION { [1..n -> Rows] : n \in 0..MaxBatch }

-----------------------------------------------------------------------------
(* The artifacts (black boxes to the service) *)

Min(a, b) == IF a < b THEN a ELSE b

\* The serving_default signature of an artifact: one probability per
\* 30-feature row.  The weights are opaque; two representative artifacts.
Weights(w) ==
    IF w = "wA" THEN [bias |-> 3, wTime |-> 1, wAmount |-> 1]
                ELSE [bias |-> 5, wTime |-> 0, wAmount |-> 2]

Forward(w, row) ==
    Min(ProbScale,
        Weights(w).bias + Weights(w).wTime * row[1]
          + Weights(w).wAmount * (row[FeatureDim] \div (F32Exact \div 2)))

-----------------------------------------------------------------------------
(* Loader: FraudDetectionModel.__init__, load_model, _download_model,
   initialize_model *)

\* keras.layers.TFSMLayer(self.model_path) loads the SavedModel at the path:
\* it raises unless a loadable artifact lies there.
CanConstruct(dir) == dir \in Artifacts

\* Path(self.model_path).exists()
PathExists(dir) == dir # "absent"

\* load_model's control flow after an initialize_model call: the try body's
\* failure enters the except block (download, then one more construction);
\* everything else falls to the finally block.
AfterInitRetrying(attempt, ok) ==
    IF ok THEN "finally" ELSE "download"

AfterInitAlwaysDownload(attempt, ok) ==
    IF attempt = 1 THEN "download" ELSE "finally"

AfterInit(attempt, ok) ==
    IF attempt = 1 /\ ~ok THEN "download" ELSE "finally"

\* load_model's finally block: raise RuntimeError when self.model is None;
\* otherwise a propagating exception goes on, or load_model returns.
FinallySwallow(m, pending) == "serving"

FinallyOutcome(m, pending) ==
    IF m = None THEN "fatal"
    ELSE IF pending THEN "fatal"
    ELSE "serving"

\* __init__: self.model = None, then load_model() is entered
Construct ==
    /\ pc = "import"
    /\ model' = None
    /\ pc' = "init1"
    /\ UNCHANGED <<localDir, remote, excPending, initAttempts, downloads, wipes,
                   fetches, firstInitFailed, dirAtStart, servedModel,
                   FRAUD_THRESHOLD, thresholdAtStart, req>>

\* initialize_model, called from the try body (attempt 1) or from the
\* except block (attempt 2)
InitializeModel(attempt) ==
    /\ pc = (IF attempt = 1 THEN "init1" ELSE "init2")
    /\ initAttempts' = initAttempts + 1
    /\ LET ok == CanConstruct(localDir) IN
        /\ model' = IF ok THEN localDir ELSE model
        /\ firstInitFailed' = IF attempt = 1 THEN ~ok ELSE firstInitFailed
        /\ excPending' = IF attempt = 2 THEN ~ok ELSE excPending
        /\ pc' = AfterInit(attempt, ok)
    /\ UNCHANGED <<localDir, remote, downloads, wipes, fetches, dirAtStart,
                   servedModel, FRAUD_THRESHOLD, thresholdAtStart, req>>

\* _download_model, first half: remove the existing directory
DownloadWipe ==
    /\ pc = "download"
    /\ downloads' = downloads + 1
    /\ IF PathExists(localDir)
         THEN /\ localDir' = "absent"
              /\ wipes' = wipes + 1
         ELSE UNCHANGED <<localDir, wipes>>
    /\ pc' = "fetch"
    /\ UNCHANGED <<remote, model, excPending, initAttempts, fetches,
                   firstInitFailed, dirAtStart, servedModel, FRAUD_THRESHOLD,
                   thresholdAtStart, req>>

\* _download_model, second half: snapshot_download into the local path.
\* An unreachable repository raises and leaves nothing or a partial directory.
DownloadFetch ==
    /\ pc = "fetch"
    /\ fetches' = fetches + 1
    /\ IF remote = "down"
         THEN /\ localDir' \in {"absent", "corrupt"}
              /\ excPending' = TRUE
              /\ pc' = "finally"
         ELSE /\ localDir' = remote
              /\ excPending' = FALSE
              /\ pc' = "init2"
    /\ UNCHANGED <<remote, model, initAttempts, downloads, wipes,
                   firstInitFailed, dirAtStart, servedModel, FRAUD_THRESHOLD,
                   thresholdAtStart, req>>

\* load_model's finally block; on success the module import completes and the
\* router can be included in the app
Finally ==
    /\ pc = "finally"
    /\ pc' = FinallyOutcome(model, excPending)
    /\ servedModel' = model
    /\ UNCHANGED <<localDir, remote, model, excPending, initAttempts, downloads,
                   wipes, fetches, firstInitFailed, dirAtStart, FRAUD_THRESHOLD,
                   thresholdAtStart, req>>

-----------------------------------------------------------------------------
(* Inference wrapper and endpoint *)

\* astype("float32") of one non-negative integer below 2^25: exact up to 2^24,
\* then rounded to the nearest even integer, ties to the even significand
F32(x) ==
    IF x <= F32Exact \/ x % 2 = 0 THEN x
    ELSE IF (x \div 2) % 2 = 0 THEN 2 * (x \div 2)
    ELSE 2 * ((x \div 2) + 1)

NoArray == [ok |-> FALSE, shape |-> <<>>, data |-> <<>>, err |-> ""]

\* np.array(request.features).astype("float32"): an empty list gives shape
\* (0,), rows of one length L give shape (N, L), ragged rows raise
NpArray(features) ==
    IF Len(features) = 0
      THEN [ok |-> TRUE, shape |-> <<0>>, data |-> <<>>, err |-> ""]
    ELSE IF \A i \in 1..Len(features) : Len(features[i]) = Len(features[1])
      THEN [ok |-> TRUE,
            shape |-> <<Len(features), Len(features[1])>>,
            data |-> [i \in 1..Len(features) |->
                        [j \in 1..Len(features[i]) |-> F32(features[i][j])]],
            err |-> ""]
    ELSE [NoArray EXCEPT !.err = "inhomogeneous shape"]

\* a row cut or zero-filled to FeatureDim features
Fit(row) ==
    [j \in 1..FeatureDim |-> IF j <= Len(row) THEN row[j] ELSE 0]

\* self.model.predict(features, verbose=0) on a Sequential whose Input has
\* shape (30,): raises unless the array is (N, 30) with N >= 1, else returns
\* {"dense_7": an N x 1 tensor}
KerasPredictLenient(m, x) ==
    IF Len(x.shape) = 2 /\ x.shape[1] >= 1
      THEN [ok |-> TRUE,
            dense_7 |-> [i \in 1..x.shape[1] |-> <<Forward(m, Fit(x.data[i]))>>],
            err |-> ""]
    ELSE [ok |-> FALSE, dense_7 |-> <<>>, err |-> "empty batch_outputs"]

KerasPredict(m, x) ==
    IF Len(x.shape) = 2 /\ x.shape[1] >= 1 /\ x.shape[2] = FeatureDim
      THEN [ok |-> TRUE,
            dense_7 |-> [i \in 1..x.shape[1] |-> <<Forward(m, x.data[i])>>],
            err |-> ""]
    ELSE IF Len(x.shape) = 2 /\ x.shape[1] >= 1
      THEN [ok |-> FALSE, dense_7 |-> <<>>, err |-> "incompatible shape"]
    ELSE [ok |-> FALSE, dense_7 |-> <<>>, err |-> "empty batch_outputs"]

\* 1 if prob > ai_config.FRAUD_THRESHOLD else 0
LabelAtLeast(prob, threshold) == IF prob >= threshold THEN 1 ELSE 0

Label(prob, threshold) == IF prob > threshold THEN 1 ELSE 0

\* FraudDetectionModel.predict: list_prob is probabilities["dense_7"][0],
\* the first row of the output tensor
Predict(m, threshold, x) ==
    LET probabilities == KerasPredict(m, x) IN
    IF ~probabilities.ok
      THEN [ok |-> FALSE, list_prob |-> <<>>, binary_result |-> <<>>,
            err |-> probabilities.err]
    ELSE LET list_prob == probabilities.dense_7[1] IN
         [ok |-> TRUE,
          list_prob |-> list_prob,
          binary_result |-> [k \in 1..Len(list_prob) |->
                               Label(list_prob[k], threshold)],
          err |-> ""]

\* except Exception as e: raise HTTPException(status_code=500, detail=str(e))
ErrorResponseGeneric(e) ==
    [status |-> 500, result |-> <<>>, detail |-> "Internal Server Error"]

ErrorResponse(e) == [status |-> 500, result |-> <<>>, detail |-> e]

\* return FraudDetectionResponse(result=result)
OkResponse(result) == [status |-> 200, result |-> result, detail |-> ""]

NoResponse == [status |-> 0, result |-> <<>>, detail |-> ""]

IdleRequest ==
    [pc |-> "idle", features |-> <<>>, input_data |-> NoArray,
     list_prob |-> <<>>, result |-> <<>>, raised |-> "", response |-> NoResponse]

\* FastAPI has validated the body and calls detect_fraud(request)
Receive(r, b) ==
    /\ pc = "serving"
    /\ req[r].pc = "idle"
    /\ req' = [req EXCEPT ![r] = [@ EXCEPT !.pc = "received", !.features = b]]
    /\ UNCHANGED <<pc, FRAUD_THRESHOLD, thresholdAtStart>>
    /\ UNCHANGED loaderVars

\* input_data = np.array(request.features).astype("float32")
ConvertShared(r) ==
    /\ pc = "serving"
    /\ req[r].pc = "received"
    /\ LET x == NpArray(req[r].features) IN
         req' = [q \in Reqs |->
                   IF q # r THEN [req[q] EXCEPT !.input_data = x]
                   ELSE IF x.ok
                     THEN [req[r] EXCEPT !.pc = "converted", !.input_data = x]
                     ELSE [req[r] EXCEPT !.pc = "done", !.raised = x.err,
                                         !.response = ErrorResponse(x.err)]]
    /\ UNCHANGED <<pc, FRAUD_THRESHOLD, thresholdAtStart>>
    /\ UNCHANGED loaderVars

Convert(r) ==
    /\ pc = "serving"
    /\ req[r].pc = "received"
    /\ LET x == NpArray(req[r].features) IN
         req' = [req EXCEPT ![r] =
                   IF x.ok
                     THEN [@ EXCEPT !.pc = "converted", !.input_data = x]
                     ELSE [@ EXCEPT !.pc = "done", !.raised = x.err,
                                    !.response = ErrorResponse(x.err)]]
    /\ UNCHANGED <<pc, FRAUD_THRESHOLD, thresholdAtStart>>
    /\ UNCHANGED loaderVars

\* result = fraud_model.predict(input_data), then either
\* return FraudDetectionResponse(result=result) or the except block
PredictStepAdaptive(r) ==
    /\ pc = "serving"
    /\ req[r].pc = "converted"
    /\ LET p == Predict(model, FRAUD_THRESHOLD, req[r].input_data) IN
         req' = [req EXCEPT ![r] =
                   IF p.ok
                     THEN [@ EXCEPT !.pc = "done", !.list_prob = p.list_prob,
                                    !.result = p.binary_result,
                                    !.response = OkResponse(p.binary_result)]
                     ELSE [@ EXCEPT !.pc = "done", !.raised = p.err,
                                    !.response = ErrorResponse(p.err)]]
    /\ FRAUD_THRESHOLD' = FRAUD_THRESHOLD + 1
    /\ UNCHANGED <<pc, thresholdAtStart>>
    /\ UNCHANGED loaderVars

PredictStep(r) ==
    /\ pc = "serving"
    /\ req[r].pc = "converted"
    /\ LET p == Predict(model, FRAUD_THRESHOLD, req[r].input_data) IN
         req' = [req EXCEPT ![r] =
                   IF p.ok
                     THEN [@ EXCEPT !.pc = "done", !.list_prob = p.list_prob,
                                    !.result = p.binary_result,
                                    !.response = OkResponse(p.binary_result)]
                     ELSE [@ EXCEPT !.pc = "done", !.raised = p.err,
                                    !.response = ErrorResponse(p.err)]]
    /\ UNCHANGED <<pc, FRAUD_THRESHOLD, thresholdAtStart>>
    /\ UNCHANGED loaderVars

-----------------------------------------------------------------------------
(* Specification *)

Init ==
    /\ pc = "import"
    /\ localDir \in {"absent", "corrupt", "wA"}
    /\ remote \in {"down", "corrupt", "wB"}
    /\ model = None
    /\ excPending = FALSE
    /\ initAttempts = 0
    /\ downloads = 0
    /\ wipes = 0
    /\ fetches = 0
    /\ firstInitFailed = FALSE
    /\ dirAtStart = localDir
    /\ servedModel = None
    /\ FRAUD_THRESHOLD \in Thresholds
    /\ thresholdAtStart = FRAUD_THRESHOLD
    /\ req = [r \in Reqs |-> IdleRequest]

Next ==
    \/ Construct
    \/ \E attempt \in {1, 2} : InitializeModel(attempt)
    \/ DownloadWipe
    \/ DownloadFetch
    \/ Finally
    \/ \E r \in Reqs, b \in Batches : Receive(r, b)
    \/ \E r \in Reqs : Convert(r)
    \/ \E r \in Reqs : PredictStep(r)

Spec == Init /\ [][Next]_vars

-----------------------------------------------------------------------------
(* Properties *)

Done(r) == req[r].pc = "done"

Succeeded(r) == Done(r) /\ req[r].response.status = 200

\* N >= 1 rows, each of exactly FeatureDim numbers
WellFormed(b) ==
    /\ Len(b) >= 1
    /\ \A i \in 1..Len(b) : Len(b[i]) = FeatureDim

HasWrongLength(b) == \E i \in 1..Len(b) : Len(b[i]) # FeatureDim

\* what one request handled alone gets for batch b from handle m at threshold t
DetectAlone(b, m, t) ==
    LET x == NpArray(b) IN
    IF ~x.ok THEN ErrorResponse(x.err)
    ELSE LET p == Predict(m, t, x) IN
         IF p.ok THEN OkResponse(p.binary_result) ELSE ErrorResponse(p.err)

\* C1: every well-formed batch of N rows is answered 200 with exactly N
\* labels, the i-th being the thresholded probability of the i-th row.
C1_OneLabelPerRow ==
    \A r \in Reqs :
        Done(r) /\ WellFormed(req[r].features) =>
            /\ req[r].response.status = 200
            /\ Len(req[r].response.result) = Len(req[r].features)
            /\ \A i \in 1..Len(req[r].features) :
                 /\ i <= Len(req[r].response.result)
                 /\ req[r].response.result[i] =
                      Label(Forward(servedModel, NpArray(req[r].features).data[i]),
                            thresholdAtStart)

\* C2: an empty batch is answered 200 with an empty result, without error.
C2_EmptyBatchEmptyResult ==
    \A r \in Reqs :
        Done(r) /\ req[r].features = <<>> =>
            /\ req[r].response = OkResponse(<<>>)
            /\ req[r].raised = ""

\* C3: when the first construction fails, load_model downloads exactly once
\* and then constructs at most once more; it never downloads twice nor
\* constructs a third time, and it ends with a loaded model or a fatal error.
C3_OneRefetchOneRetry ==
    /\ downloads <= 1
    /\ fetches <= 1
    /\ initAttempts <= 2
    /\ initAttempts = 2 => downloads = 1 /\ fetches = 1
    /\ firstInitFailed /\ pc \in {"init2", "finally", "serving", "fatal"} =>
           downloads = 1
    /\ pc = "serving" => model \in Artifacts /\ ~excPending
    /\ pc = "fatal" => model = None /\ firstInitFailed

C3_Witness ==
    /\ firstInitFailed
    /\ pc = "serving"
    /\ downloads = 1
    /\ initAttempts = 2

\* C4: a request is handled only once load_model has returned with a model
\* handle; the handle is never unset and never reassigned while serving.
C4_NoRequestWithoutModel ==
    /\ (\E r \in Reqs : req[r].pc # "idle") => pc = "serving"
    /\ pc = "serving" =>
           /\ model # None
           /\ model = servedModel
           /\ initAttempts \in {1, 2}
    /\ pc = "fatal" => \A r \in Reqs : req[r].pc = "idle"

C4_Witness ==
    /\ firstInitFailed
    /\ \E r \in Reqs : Succeeded(r) /\ model = servedModel /\ model # None

\* C5: a request with a row whose length is not 30 is answered with an
\* error; no labels are computed for it.
C5_WrongLengthIsError ==
    \A r \in Reqs :
        Done(r) /\ HasWrongLength(req[r].features) =>
            /\ req[r].response.status = 500
            /\ req[r].response.result = <<>>
            /\ req[r].list_prob = <<>>

C5_Witness ==
    \E r1, r2 \in Reqs :
        /\ Done(r1) /\ Done(r2)
        /\ ~NpArray(req[r1].features).ok
        /\ NpArray(req[r2].features).ok
        /\ Len(req[r2].features) >= 1
        /\ HasWrongLength(req[r2].features)
        /\ req[r1].response.status = 500
        /\ req[r2].response.status = 500

\* which batches make the conversion or predict raise
Raises(b, m) ==
    \/ ~NpArray(b).ok
    \/ ~KerasPredict(m, NpArray(b)).ok

\* C6: every exception of the conversion or of predict becomes a 500
\* response whose detail is the exception's message, with no labels.
C6_ExceptionsBecome500 ==
    \A r \in Reqs :
        /\ req[r].raised # "" =>
               /\ Done(r)
               /\ req[r].response =
                    [status |-> 500, result |-> <<>>, detail |-> req[r].raised]
        /\ Done(r) /\ Raises(req[r].features, servedModel) =>
               /\ req[r].raised # ""
               /\ req[r].response.status = 500
               /\ req[r].response.result = <<>>
        /\ Done(r) => req[r].response.status \in {200, 500}

C6_Witness ==
    \E r1, r2 \in Reqs :
        /\ Done(r1) /\ req[r1].raised = "inhomogeneous shape"
        /\ Done(r2) /\ req[r2].raised = "incompatible shape"
        /\ req[r2].response.detail = "incompatible shape"

\* C7: a label is 1 exactly when its probability is strictly greater than
\* FRAUD_THRESHOLD, so a larger probability never gets a smaller label.
C7_StrictThreshold ==
    /\ \A r \in Reqs :
         Succeeded(r) =>
             /\ Len(req[r].response.result) = Len(req[r].list_prob)
             /\ \A k \in 1..Len(req[r].list_prob) :
                  /\ req[r].response.result[k] \in {0, 1}
                  /\ req[r].response.result[k] = 1
                       <=> req[r].list_prob[k] > FRAUD_THRESHOLD
    /\ \A r1, r2 \in Reqs :
         Succeeded(r1) /\ Succeeded(r2) =>
             \A k1 \in 1..Len(req[r1].list_prob), k2 \in 1..Len(req[r2].list_prob) :
                 req[r1].list_prob[k1] < req[r2].list_prob[k2] =>
                     req[r1].response.result[k1] <= req[r2].response.result[k2]

C7_Witness ==
    \E r1, r2 \in Reqs :
        /\ Succeeded(r1) /\ Succeeded(r2)
        /\ req[r1].list_prob[1] = FRAUD_THRESHOLD
        /\ req[r1].response.result[1] = 0
        /\ req[r2].list_prob[1] > FRAUD_THRESHOLD
        /\ req[r2].response.result[1] = 1

\* C8: two predict calls with the identical batch give identical results;
\* predict leaves the model handle and the threshold as they were.
C8_PredictIdempotent ==
    /\ \A r1, r2 \in Reqs :
         Done(r1) /\ Done(r2) /\ req[r1].features = req[r2].features =>
             /\ req[r1].response = req[r2].response
             /\ req[r1].list_prob = req[r2].list_prob
    /\ FRAUD_THRESHOLD = thresholdAtStart
    /\ pc = "serving" => model = servedModel

C8_Witness ==
    \E r1, r2 \in Reqs :
        /\ r1 # r2
        /\ Succeeded(r1) /\ Succeeded(r2)
        /\ req[r1].features = req[r2].features
        /\ req[r1].response.result = <<1>>
        /\ req[r2].response.result = <<1>>

\* C9: under every interleaving of the handlers, a request's response is the
\* one it gets when handled alone, and its locals come from its own batch.
C9_RequestsIndependent ==
    \A r \in Reqs :
        /\ req[r].pc = "converted" =>
               req[r].input_data = NpArray(req[r].features)
        /\ Done(r) =>
               req[r].response =
                   DetectAlone(req[r].features, servedModel, thresholdAtStart)

C9_Witness ==
    \E r1, r2 \in Reqs :
        /\ req[r1].pc = "converted"
        /\ req[r2].pc = "converted"
        /\ req[r1].input_data # req[r2].input_data

\* C10: when the first construction succeeds nothing is wiped or downloaded
\* and the directory is left as it was; the directory is removed only in
\* _download_model, only after a failed construction, only if it existed.
C10_NoDownloadWhenLocalLoads ==
    /\ initAttempts >= 1 /\ ~firstInitFailed =>
           /\ wipes = 0
           /\ downloads = 0
           /\ fetches = 0
           /\ localDir = dirAtStart
    /\ wipes <= downloads
    /\ wipes > 0 => firstInitFailed /\ PathExists(dirAtStart)
    /\ localDir # dirAtStart => downloads >= 1

C10_Witness ==
    /\ pc = "serving"
    /\ ~firstInitFailed
    /\ initAttempts = 1
    /\ localDir = dirAtStart
    /\ fetches = 0

====
